---- MODULE Spec2Model ----
(***************************************************************************)
(* The MyAnimeList -> Twitter bot: the trigger surface (main.py            *)
(* health_check / status), the cycle (main.py trigger_bot_check), the      *)
(* state store (utils.py load_state / save_state), the completion source   *)
(* (mal_monitor.py) and the publisher (twitter_client.py).                 *)
(*                                                                         *)
(* Python values are encoded so that TLC never compares values of          *)
(* different kinds:                                                        *)
(*   - an Optional timestamp is a set: {} is None, {d} is the time d;      *)
(*   - finish_date is a record [kind, day]: kind "none" is a missing       *)
(*     (falsy) value, "full" a YYYY-MM-DD string of day `day`, "partial"   *)
(*     a YYYY-MM or YYYY string, which datetime.fromisoformat rejects;     *)
(*   - a fetch result is [ok, data]: ok = FALSE is Python's None;          *)
(*   - tweeted_*_ids are sets: the code only tests membership and appends  *)
(*     an id that is not yet a member; a missing key reads as [] through   *)
(*     state.get(k, []) and setdefault(k, []), so it is the empty set.     *)
(***************************************************************************)
EXTENDS Integers, Sequences, FiniteSets, TLC

\* ---- bounds of the model
MaxId == 2
MaxDay == 2
NThreads == 2
MaxCycles == 2
MaxScore == 10
MaxCalls == 3
MaxEntries == 3

Ids == 1..MaxId
Days == 1..MaxDay
Threads == 1..NThreads
Categories == {"anime", "manga"}

VARIABLES
  bot_status,      \* main.py:25 the global status dict
  mal_monitor,     \* main.py:34 TRUE once the MALMonitor object exists
  twitter_client,  \* main.py:35 TRUE when a TwitterClient object exists
  rb_pc,           \* position of run_bot (the main thread)
  file,            \* state.json
  images,          \* the files under temp/, as <<type, mal_id>>
  now,             \* the wall clock, in days
  tweets,          \* the publishing API's record: the items it created a post for
  pc,              \* position of each trigger_bot_check thread
  loc,             \* locals of each trigger_bot_check thread
  started,         \* number of trigger_bot_check threads started so far
  everPersisted,   \* history: ids that state.json has held, per category
  media,           \* twitter_client.py:116 the argument of _format_tweet_text
  tweet_text,      \* twitter_client.py:46 the text it returned, "" before the call
  response,        \* mal_monitor.py:50 the answer to one list request
  completed,       \* mal_monitor.py:94 what the fetch returned, {} before it returns
  feed             \* {} when the lists change from fetch to fetch, else {the two lists}

vars == <<bot_status, mal_monitor, twitter_client, rb_pc, file, images,
          now, tweets, pc, loc, started, everPersisted, media, tweet_text,
                 response, completed, feed>>

\* ---- values
NoTime == {}
NoDate == [kind |-> "none", day |-> 0]
PartialDate == [kind |-> "partial", day |-> 0]
FinishDates == {NoDate, PartialDate} \cup {[kind |-> "full", day |-> d] : d \in Days}

Entries == [mal_id : Ids, finished_date : FinishDates]

DistinctIds(s) == \A i, j \in 1..Len(s) : i # j => s[i].mal_id # s[j].mal_id

\* A fetched list holds an id at most once, so it has at most MaxId entries.
EntryLists ==
  {s \in UNION {[1..n -> Entries] : n \in 0..MaxId} : DistinctIds(s)}

FetchFailed == [ok |-> FALSE, data |-> <<>>]

\* ---- mal_monitor.py get_completed_anime / get_completed_manga
\* An entry of data['data'] as the API sent it: `wellformed` is FALSE when the
\* entry has no 'node', or the node no 'id' or no 'title'.
Malformed == [wellformed |-> FALSE, mal_id |-> 0, finished_date |-> NoDate]
RawEntries ==
  [wellformed : {TRUE}, mal_id : Ids, finished_date : FinishDates] \cup {Malformed}

RawLists ==
  {s \in UNION {[1..n -> RawEntries] : n \in 0..MaxEntries} :
     \A i, j \in 1..Len(s) :
       (i # j /\ s[i].wellformed /\ s[j].wellformed) => s[i].mal_id # s[j].mal_id}

\* The answer to the request of line 50 / 122: the request raises, the status
\* is not 200, the body has no 'data' key, or the body holds a list.
NoResponses ==
  {[kind |-> k, data |-> <<>>] : k \in {"network_error", "http_error", "no_data_key"}}
Responses == NoResponses \cup {[kind |-> "ok", data |-> s] : s \in RawLists}

\* lines 81-91 / 153-165: the dictionary built from a well-formed entry.
Info(e) == [mal_id |-> e.mal_id, finished_date |-> e.finished_date]

WellFormed(s) == SelectSeq(s, LAMBDA e : e.wellformed)

InfoList(s) == [i \in 1..Len(s) |-> Info(s[i])]

\* lines 30-101 / 103-175: None unless the body holds a list; entry['node'],
\* node['id'] and node['title'] raise KeyError on a malformed entry, inside
\* the try of the whole function, whose handler (lines 99-101) returns None.
get_completed(resp) ==
  IF resp.kind # "ok" THEN FetchFailed
  ELSE IF \E i \in 1..Len(resp.data) : ~resp.data[i].wellformed THEN FetchFailed
  ELSE [ok |-> TRUE, data |-> InfoList(resp.data)]

\* main.py:78-79: what a fetch can return.
FetchResults == {get_completed(resp) : resp \in Responses}

\* Every fetch result passes for a non-empty list: the test of lines 81-85
\* never fires.
TruthyAlways(r) == TRUE

\* Python truthiness of an Optional[List]: None and [] are both falsy.
Truthy(r) == r.ok /\ r.data # <<>>

EmptyState == [anime |-> {}, manga |-> {}, last_check |-> NoTime]

AbsentFile == [kind |-> "absent", state |-> EmptyState]
PartialFile == [kind |-> "partial", state |-> EmptyState]
WrittenFile(s) == [kind |-> "ok", state |-> s]

\* ---- utils.py
\* load_state: the parsed file, the default state when there is no file, and
\* the fallback state (no tweeted ids) when reading or parsing raises.
load_state(f) ==
  IF f.kind = "ok" THEN f.state ELSE EmptyState

\* The ids state.json holds for a category (none when it cannot be parsed).
PersistedIds(f, c) == IF f.kind = "ok" THEN f.state[c] ELSE {}

\* ---- main.py, the delta computation
\* datetime.fromisoformat(...) raises ValueError on a partial date.
ParseRaises(e) == e.finished_date.kind = "partial"

\* The filter without its two date conditions.
IsNewAnyDate(e, today, ids) == e.mal_id \notin ids

IsNew(e, today, ids) ==
  /\ e.finished_date.kind # "none"
  /\ e.finished_date.day >= today
  /\ e.mal_id \notin ids

FilterNew(r, today, ids) ==
  IF Truthy(r) THEN SelectSeq(r.data, LAMBDA e : IsNew(e, today, ids)) ELSE <<>>

FilterRaises(r) ==
  Truthy(r) /\ \E i \in 1..Len(r.data) :
     r.data[i].finished_date.kind # "none" /\ ParseRaises(r.data[i])

\* ---- initial state
\* main.py:25-31. The two counts (completed_anime_count, completed_manga_count)
\* are left out: lines 88-89 write them and only the HTTP response bodies,
\* which the model does not carry, read them.
InitStatus ==
  [status |-> "starting", last_check |-> NoTime, error_message |-> "None"]

InitLoc ==
  [state |-> EmptyState, new_anime |-> <<>>, new_manga |-> <<>>, today |-> 0,
   media |-> {}, image_path |-> {}, upload |-> "none", media_ids |-> FALSE,
   calls |-> <<>>, result |-> FALSE, published |-> 0]

\* The record a text is formatted for while no text is being formatted.
NoMedia == [title |-> "", score |-> 0, type |-> "anime"]

\* The answer a fetch works on while no fetch is looked at on its own.
NoResponse == [kind |-> "network_error", data |-> <<>>]

Init ==
  /\ media = NoMedia
  /\ tweet_text = ""
  /\ response = NoResponse
  /\ completed = {}
  /\ feed = {}
  /\ bot_status = InitStatus
  /\ mal_monitor = FALSE
  /\ twitter_client = FALSE
  /\ rb_pc = "start"
  /\ file = AbsentFile
  /\ images = {}
  /\ now = 1
  /\ tweets = [c \in Categories |-> {}]
  /\ pc = [t \in Threads |-> "none"]
  /\ loc = [t \in Threads |-> InitLoc]
  /\ started = 0
  /\ everPersisted = [c \in Categories |-> {}]

Alive == rb_pc # "exited"

\* ---- main.py run_bot (the main thread; the web server is already serving)
\* line 182
RunBotInit ==
  /\ rb_pc = "start"
  /\ bot_status' = [bot_status EXCEPT !.status = "initializing"]
  /\ rb_pc' = "config"
  /\ UNCHANGED <<mal_monitor, twitter_client, file, images, now, tweets,
                 pc, loc, started, everPersisted, media, tweet_text,
                 response, completed, feed>>

\* lines 185-220: Config() raises (main() then exits the process), or the
\* components are built; a TwitterClient that cannot be built leaves None.
RunBotComponents ==
  /\ rb_pc = "config"
  /\ \/ /\ rb_pc' = "exited"
        /\ UNCHANGED <<mal_monitor, twitter_client>>
     \/ /\ rb_pc' = "ready"
        /\ mal_monitor' = TRUE
        /\ twitter_client' \in BOOLEAN
  /\ UNCHANGED <<bot_status, file, images, now, tweets, pc, loc, started,
                 everPersisted, media, tweet_text,
                 response, completed, feed>>

\* lines 225-226
RunBotReady ==
  /\ rb_pc = "ready"
  /\ bot_status' = [bot_status EXCEPT !.status = "idle", !.last_check = NoTime]
  /\ rb_pc' = "running"
  /\ UNCHANGED <<mal_monitor, twitter_client, file, images, now, tweets,
                 pc, loc, started, everPersisted, media, tweet_text,
                 response, completed, feed>>

\* ---- the environment
\* The date changes.
Tick ==
  /\ now < MaxDay
  /\ now' = now + 1
  /\ UNCHANGED <<bot_status, mal_monitor, twitter_client, rb_pc, file,
                 images, tweets, pc, loc, started, everPersisted,
                 media, tweet_text,
                 response, completed, feed>>

\* ---- main.py, the trigger surface
FreeThreads == {t \in Threads : pc[t] = "none"}
FirstFree == CHOOSE t \in FreeThreads : \A u \in FreeThreads : t <= u

\* GET / without the test of the status.
HealthCheckAnyPhase(cap) ==
  /\ Alive
  /\ FreeThreads # {}
  /\ started < cap
  /\ pc' = [pc EXCEPT ![FirstFree] = "start"]
  /\ started' = started + 1
  /\ UNCHANGED <<bot_status, mal_monitor, twitter_client, rb_pc, file, images,
                 now, tweets, loc, everPersisted, media, tweet_text,
                 response, completed, feed>>

\* lines 39-54: GET /. The thread it starts has not yet run a statement.
\* `cap` bounds the number of threads the model starts.
HealthCheck(cap) ==
  /\ Alive
  /\ IF bot_status.status = "idle"
       THEN /\ FreeThreads # {}
            /\ started < cap
            /\ pc' = [pc EXCEPT ![FirstFree] = "start"]
            /\ started' = started + 1
       ELSE UNCHANGED <<pc, started>>
  /\ UNCHANGED <<bot_status, mal_monitor, twitter_client, rb_pc, file, images,
                 now, tweets, loc, everPersisted, media, tweet_text,
                 response, completed, feed>>

\* GET /status does what GET / does.
status_triggers == HealthCheck(MaxCycles)

\* lines 56-59: GET /status.
status ==
  /\ Alive
  /\ UNCHANGED <<bot_status, mal_monitor, twitter_client, rb_pc, file, images,
                 now, tweets, pc, loc, started, everPersisted,
                 media, tweet_text,
                 response, completed, feed>>

\* ---- main.py trigger_bot_check, one thread per started check
\* The record every write of state.json leaves in the history.
Persist(f) ==
  everPersisted' = [c \in Categories |-> everPersisted[c] \cup PersistedIds(f, c)]

\* The thread returns: its frame is gone.
Return(t) ==
  /\ pc' = [pc EXCEPT ![t] = "none"]
  /\ loc' = [loc EXCEPT ![t] = InitLoc]

\* The thread ends on an exception and bot_status is not touched.
ExceptUnrecorded(t, msg) ==
  /\ Return(t)
  /\ UNCHANGED bot_status

\* lines 163-166: the handler of the outer try.
Except(t, msg) ==
  /\ bot_status' = [bot_status EXCEPT !.error_message = msg, !.status = "error"]
  /\ Return(t)

\* A local is dropped after its last use: from line 151 on only `state` is
\* read.
Saving(l) == [InitLoc EXCEPT !.state = l.state]

\* lines 65-72
Begin(t) ==
  /\ Alive
  /\ pc[t] = "start"
  /\ IF ~mal_monitor
       THEN /\ Return(t)
            /\ UNCHANGED bot_status
       ELSE /\ bot_status' = [bot_status EXCEPT !.status = "checking"]
            /\ pc' = [pc EXCEPT ![t] = "load"]
            /\ UNCHANGED loc
  /\ UNCHANGED <<mal_monitor, twitter_client, rb_pc, file, images, now,
                 tweets, started, everPersisted, media, tweet_text,
                 response, completed, feed>>

\* line 75
Load(t) ==
  /\ Alive
  /\ pc[t] = "load"
  /\ loc' = [loc EXCEPT ![t].state = load_state(file)]
  /\ pc' = [pc EXCEPT ![t] = "fetch"]
  /\ UNCHANGED <<bot_status, mal_monitor, twitter_client, rb_pc, file,
                 images, now, tweets, started, everPersisted,
                 media, tweet_text,
                 response, completed, feed>>

\* One list of tweeted ids serves both categories.
TweetedAny(st, c) == st.anime \cup st.manga

\* lines 104 / 112: state.get('tweeted_anime_ids', []) in the anime filter,
\* state.get('tweeted_manga_ids', []) in the manga filter.
Tweeted(st, c) == st[c]

\* The last element is read in place of element 0.
KeptLast(l) == IF l = <<>> THEN <<>> ELSE <<l[Len(l)]>>

\* Of new_anime and new_manga the code reads whether they are empty (lines
\* 118-124, 136) and element 0 (lines 126, 138): the thread keeps that much.
Kept(l) == IF l = <<>> THEN <<>> ELSE <<l[1]>>

\* What lines 81-113 make of one fetch result.
Filtered(r, today, ids) ==
  [truthy |-> Truthy(r),
   raises |-> FilterRaises(r),
   new |-> IF FilterRaises(r) THEN <<>> ELSE Kept(FilterNew(r, today, ids))]

\* lines 81-113 on the two results: the both-empty test, today's date and the
\* two filters.
FetchStep(t, completed_anime, completed_manga) ==
  /\ pc[t] = "fetch"
  /\ IF ~completed_anime.truthy /\ ~completed_manga.truthy
       THEN /\ bot_status' = [bot_status EXCEPT
                   !.status = "error",
                   !.error_message = "Failed to fetch MAL data"]
            /\ Return(t)
     ELSE IF completed_anime.raises \/ completed_manga.raises
       THEN Except(t, "Invalid isoformat string")
     ELSE /\ UNCHANGED bot_status
          /\ loc' = [loc EXCEPT ![t].today = now,
                                ![t].new_anime = completed_anime.new,
                                ![t].new_manga = completed_manga.new]
          /\ pc' = [pc EXCEPT ![t] = "select"]
  /\ UNCHANGED <<mal_monitor, twitter_client, rb_pc, file, images, now,
                 tweets, started, everPersisted, media, tweet_text,
                 response, completed, feed>>

\* lines 78-79: both fetches (get_completed_anime / get_completed_manga return
\* a list, or None on any failure), then lines 81-113.
Fetch(t) ==
  /\ Alive
  /\ pc[t] = "fetch"
  /\ LET anime == {Filtered(r, now, Tweeted(loc[t].state, "anime")) : r \in FetchResults}
         manga == {Filtered(r, now, Tweeted(loc[t].state, "manga")) : r \in FetchResults}
     IN \E completed_anime \in anime, completed_manga \in manga :
          FetchStep(t, completed_anime, completed_manga)

\* `if` in place of `elif` on line 136: both branches run.
SelectedBoth(l) ==
  IF twitter_client
    THEN {[type |-> "manga", mal_id |-> l.new_manga[i].mal_id,
           finished_date |-> l.new_manga[i].finished_date] : i \in 1..Len(l.new_manga)}
         \cup
         {[type |-> "anime", mal_id |-> l.new_anime[i].mal_id,
           finished_date |-> l.new_anime[i].finished_date] : i \in 1..Len(l.new_anime)}
    ELSE {}

\* The two branches of lines 124 / 136 in the other order.
SelectedAnimeFirst(l) ==
  IF l.new_anime # <<>> /\ twitter_client
    THEN {[type |-> "anime", mal_id |-> l.new_anime[1].mal_id,
           finished_date |-> l.new_anime[1].finished_date]}
  ELSE IF l.new_manga # <<>> /\ twitter_client
    THEN {[type |-> "manga", mal_id |-> l.new_manga[1].mal_id,
           finished_date |-> l.new_manga[1].finished_date]}
  ELSE {}

\* The record handed on by lines 124-126 / 136-138: manga before anime, the
\* first of the list.
Selected(l) ==
  IF l.new_manga # <<>> /\ twitter_client
    THEN {[type |-> "manga", mal_id |-> l.new_manga[1].mal_id,
           finished_date |-> l.new_manga[1].finished_date]}
  ELSE IF l.new_anime # <<>> /\ twitter_client
    THEN {[type |-> "anime", mal_id |-> l.new_anime[1].mal_id,
           finished_date |-> l.new_anime[1].finished_date]}
  ELSE {}

\* mal_monitor.py download_media_image: None without an image URL, on a
\* non-200 answer or on any exception; else the file temp/<type>_<id>.jpg.
DownloadOutcomes == {"no_url", "failed", "saved"}

\* mal_monitor.py:198
ImagePath(m) == <<m.type, m.mal_id>>

\* The cycle gives up when download_media_image returns None.
SelectNeedsImage(t) ==
  /\ Alive
  /\ pc[t] = "select"
  /\ LET sel == Selected(loc[t])
     IN IF sel = {}
          THEN /\ pc' = [pc EXCEPT ![t] = "save"]
               /\ loc' = [loc EXCEPT ![t] = Saving(@)]
               /\ UNCHANGED <<images, bot_status>>
          ELSE \E m \in sel, o \in DownloadOutcomes :
               IF o = "saved"
                 THEN /\ images' = images \cup {ImagePath(m)}
                      /\ loc' = [loc EXCEPT ![t].media = sel,
                                            ![t].image_path = {ImagePath(m)}]
                      /\ pc' = [pc EXCEPT ![t] = "post"]
                      /\ UNCHANGED bot_status
                 ELSE /\ Except(t, "no image")
                      /\ UNCHANGED images
  /\ UNCHANGED <<mal_monitor, twitter_client, rb_pc, file, now, tweets,
                 started, everPersisted, media, tweet_text,
                 response, completed, feed>>

\* lines 124-128 / 136-140 / 148-149
Select(t) ==
  /\ Alive
  /\ pc[t] = "select"
  /\ LET sel == Selected(loc[t])
     IN IF sel = {}
          THEN /\ pc' = [pc EXCEPT ![t] = "save"]
               /\ loc' = [loc EXCEPT ![t] = Saving(@)]
               /\ UNCHANGED images
          ELSE \E m \in sel, o \in DownloadOutcomes :
               /\ images' = IF o = "saved" THEN images \cup {ImagePath(m)}
                                            ELSE images
               /\ loc' = [loc EXCEPT
                    ![t].media = sel,
                    ![t].image_path = IF o = "saved" THEN {ImagePath(m)} ELSE {}]
               /\ pc' = [pc EXCEPT ![t] = "post"]
  /\ UNCHANGED <<bot_status, mal_monitor, twitter_client, rb_pc, file, now,
                 tweets, started, everPersisted, media, tweet_text,
                 response, completed, feed>>

\* twitter_client.py post_media_tweet: the answers of create_tweet, in order.
\* "created" returns response data; "no_data" returns none; the others raise.
FirstAnswers == {"created", "no_data", "TooManyRequests", "Forbidden",
                 "Unauthorized", "other"}

\* The retry of line 87 can get every answer the first call can.
RetryAnswers == FirstAnswers

\* What the API would answer to the 1st, 2nd, ... create_tweet of one publish.
AnswerStreams == [1..MaxCalls -> FirstAnswers]

\* lines 53-60: media_upload returns a response with media_id_string, returns
\* one without, or raises.
UploadOutcomes == {"media_id", "no_id", "raises"}

\* The publisher calls create_tweet again as long as the answer is
\* TooManyRequests.
post_media_tweet_retry_again(exists, upload, answers) ==
  LET n == IF \E i \in 1..Len(answers) : answers[i] # "TooManyRequests"
             THEN CHOOSE i \in 1..Len(answers) :
                    /\ answers[i] # "TooManyRequests"
                    /\ \A j \in 1..(i - 1) : answers[j] = "TooManyRequests"
             ELSE Len(answers)
      calls == SubSeq(answers, 1, n)
  IN [upload |-> IF exists THEN upload ELSE "none",
      media_ids |-> exists /\ upload = "media_id",
      calls |-> calls,
      result |-> calls[Len(calls)] = "created"]

\* The publisher gives up when the upload fails.
post_media_tweet_upload_aborts(exists, upload, answers) ==
  LET calls == IF exists /\ upload # "media_id" THEN <<>>
               ELSE IF answers[1] = "TooManyRequests"
                 THEN <<answers[1], answers[2]>>
               ELSE <<answers[1]>>
  IN [upload |-> IF exists THEN upload ELSE "none",
      media_ids |-> exists /\ upload = "media_id",
      calls |-> calls,
      result |-> calls # <<>> /\ calls[Len(calls)] = "created"]

\* lines 47-114, after the text is formatted. `exists` is the test of line
\* 51; media_ids is TRUE when a media id is passed to create_tweet; calls are
\* the answers to the create_tweet calls made (line 63, and line 87 after
\* TooManyRequests); result is the value returned.
post_media_tweet(exists, upload, answers) ==
  LET calls == IF answers[1] = "TooManyRequests"
                 THEN <<answers[1], answers[2]>>
                 ELSE <<answers[1]>>
  IN [upload |-> IF exists THEN upload ELSE "none",
      media_ids |-> exists /\ upload = "media_id",
      calls |-> calls,
      result |-> calls[Len(calls)] = "created"]

\* What one call of post_media_tweet can do and return.
PublishOutcomes(exists) ==
  {post_media_tweet(exists, u, a) : u \in UploadOutcomes, a \in AnswerStreams}

\* lines 62-114: the calls of create_tweet one publish makes.
CreateTweetCalls == {p.calls : p \in PublishOutcomes(FALSE)}

\* lines 68-78 / 92-105: True exactly when the last call returned data.
PostResult(calls) == calls[Len(calls)] = "created"

\* twitter_client.py:51
ImageExists(l) == l.image_path # {} /\ l.image_path \subseteq images

\* The id is appended whatever post_media_tweet returns.
PostAlwaysAdds(t) ==
  /\ Alive
  /\ pc[t] = "post"
  /\ \E m \in loc[t].media, p \in PublishOutcomes(ImageExists(loc[t])) :
       /\ tweets' = IF p.result THEN [tweets EXCEPT ![m.type] = @ \cup {m.mal_id}]
                                ELSE tweets
       /\ loc' = [loc EXCEPT
            ![t].upload = p.upload,
            ![t].media_ids = p.media_ids,
            ![t].calls = p.calls,
            ![t].result = p.result,
            ![t].published = @ + 1,
            ![t].today = 0,
            ![t].new_anime = <<>>,
            ![t].new_manga = <<>>,
            ![t].media = {},
            ![t].state = [@ EXCEPT ![m.type] = @ \cup {m.mal_id}]]
  /\ pc' = [pc EXCEPT ![t] = "cleanup"]
  /\ UNCHANGED <<bot_status, mal_monitor, twitter_client, rb_pc, file, images,
                 now, started, everPersisted, media, tweet_text,
                 response, completed, feed>>

\* The step of lines 129-132 / 141-144 in which post_media_tweet returns p for
\* the record m: on True the id is appended to the list of its category.
PostStep(t, m, p) ==
  /\ tweets' = IF p.result THEN [tweets EXCEPT ![m.type] = @ \cup {m.mal_id}]
                           ELSE tweets
  /\ loc' = [loc EXCEPT
       ![t].upload = p.upload,
       ![t].media_ids = p.media_ids,
       ![t].calls = p.calls,
       ![t].result = p.result,
       ![t].published = @ + 1,
       ![t].today = 0,
       ![t].new_anime = <<>>,
       ![t].new_manga = <<>>,
       ![t].media = {},
       ![t].state = IF p.result THEN [@ EXCEPT ![m.type] = @ \cup {m.mal_id}]
                                ELSE @]
  /\ pc' = [pc EXCEPT ![t] = "cleanup"]
  /\ UNCHANGED bot_status

\* lines 129-132 / 141-144: the publisher is called. twitter_client.py:46
\* formats the text before the try of line 49: `score > 0` (line 123) raises
\* TypeError when the score the API sent is not a number, and the exception
\* reaches the handler of main.py:163.
Post(t) ==
  /\ Alive
  /\ pc[t] = "post"
  /\ \/ \E m \in loc[t].media, p \in PublishOutcomes(ImageExists(loc[t])) :
          PostStep(t, m, p)
     \/ /\ Except(t, "'>' not supported")
        /\ UNCHANGED tweets
  /\ UNCHANGED <<mal_monitor, twitter_client, rb_pc, file, images, now,
                 started, everPersisted, media, tweet_text,
                 response, completed, feed>>

\* lines 134 / 146: image_path and os.path.exists(image_path)
CleanupCheck(t) ==
  /\ Alive
  /\ pc[t] = "cleanup"
  /\ IF loc[t].image_path # {} /\ loc[t].image_path \subseteq images
       THEN /\ pc' = [pc EXCEPT ![t] = "remove"]
            /\ UNCHANGED loc
       ELSE /\ pc' = [pc EXCEPT ![t] = "save"]
            /\ loc' = [loc EXCEPT ![t] = Saving(@)]
  /\ UNCHANGED <<bot_status, mal_monitor, twitter_client, rb_pc, file,
                 images, now, tweets, started, everPersisted,
                 media, tweet_text,
                 response, completed, feed>>

\* lines 135 / 147: os.remove raises FileNotFoundError when the file is gone.
Remove(t) ==
  /\ Alive
  /\ pc[t] = "remove"
  /\ IF loc[t].image_path \subseteq images
       THEN /\ images' = images \ loc[t].image_path
            /\ pc' = [pc EXCEPT ![t] = "save"]
            /\ loc' = [loc EXCEPT ![t] = Saving(@)]
            /\ UNCHANGED bot_status
       ELSE /\ Except(t, "No such file or directory")
            /\ UNCHANGED images
  /\ UNCHANGED <<mal_monitor, twitter_client, rb_pc, file, now, tweets,
                 started, everPersisted, media, tweet_text,
                 response, completed, feed>>

\* main.py:152 and utils.py:66-67 save_state: open(state_file, 'w') truncates
\* the file, or raises and leaves it (the exception is logged, lines 70-71).
SaveOpen(t) ==
  /\ Alive
  /\ pc[t] = "save"
  /\ loc' = [loc EXCEPT ![t].state.last_check = {now}]
  /\ \/ /\ file' = PartialFile
        /\ pc' = [pc EXCEPT ![t] = "dump"]
     \/ /\ file' = file
        /\ pc' = [pc EXCEPT ![t] = "status"]
  /\ UNCHANGED <<bot_status, mal_monitor, twitter_client, rb_pc, images, now,
                 tweets, started, everPersisted, media, tweet_text,
                 response, completed, feed>>

\* utils.py:68 json.dump writes the state, or raises part-way (logged, lines
\* 70-71) and leaves what it has written.
SaveDump(t) ==
  /\ Alive
  /\ pc[t] = "dump"
  /\ \/ file' = WrittenFile(loc[t].state)
     \/ file' = PartialFile
  /\ Persist(file')
  /\ pc' = [pc EXCEPT ![t] = "status"]
  /\ UNCHANGED <<bot_status, mal_monitor, twitter_client, rb_pc, images, now,
                 tweets, loc, started, media, tweet_text,
                 response, completed, feed>>

\* The thread returns after save_state and leaves the status alone.
FinishNoStatus(t) ==
  /\ Alive
  /\ pc[t] = "status"
  /\ UNCHANGED bot_status
  /\ Return(t)
  /\ UNCHANGED <<mal_monitor, twitter_client, rb_pc, file, images, now,
                 tweets, started, everPersisted, media, tweet_text,
                 response, completed, feed>>

\* lines 155-156
Finish(t) ==
  /\ Alive
  /\ pc[t] = "status"
  /\ bot_status' = [bot_status EXCEPT !.last_check = loc[t].state.last_check,
                                      !.status = "idle"]
  /\ Return(t)
  /\ UNCHANGED <<mal_monitor, twitter_client, rb_pc, file, images, now,
                 tweets, started, everPersisted, media, tweet_text,
                 response, completed, feed>>

Cycle(t) ==
  \/ Begin(t) \/ Load(t) \/ Fetch(t) \/ Select(t) \/ Post(t)
  \/ CleanupCheck(t) \/ Remove(t) \/ SaveOpen(t) \/ SaveDump(t) \/ Finish(t)

health_check == HealthCheck(MaxCycles)

\* The checks overlap whenever GET / arrives twice before the first thread
\* has set the status.
Next ==
  \/ RunBotInit \/ RunBotComponents \/ RunBotReady
  \/ Tick
  \/ health_check
  \/ status
  \/ \E t \in Threads : Cycle(t)

Spec == Init /\ [][Next]_vars

\* Checks run one after another: GET / arrives only when no thread of an
\* earlier GET / is still alive. One more check than in Spec is explored.
Quiet == \A t \in Threads : pc[t] = "none"

\* Checks run one after another, every call a check makes returns or raises,
\* and a started thread is scheduled until it has finished.
health_check_live == Quiet /\ HealthCheck(MaxCycles)

NextLive ==
  \/ RunBotInit \/ RunBotComponents \/ RunBotReady
  \/ Tick
  \/ health_check_live
  \/ status
  \/ \E t \in Threads : Cycle(t)

SpecLive == Init /\ [][NextLive]_vars /\ \A t \in Threads : WF_vars(Cycle(t))

health_check_seq == Quiet /\ HealthCheck(MaxCycles + 1)

NextSeq ==
  \/ RunBotInit \/ RunBotComponents \/ RunBotReady
  \/ Tick
  \/ health_check_seq
  \/ status
  \/ \E t \in Threads : Cycle(t)

SpecSeq == Init /\ [][NextSeq]_vars

\* ---- the process is killed and started again
\* state.json, the files under temp/ and the published posts outlive the
\* process; the module globals of main.py:25-37 and every thread are gone.
Crash ==
  /\ Alive
  /\ \E t \in Threads : pc[t] # "none"
  /\ bot_status' = InitStatus
  /\ mal_monitor' = FALSE
  /\ twitter_client' = FALSE
  /\ rb_pc' = "start"
  /\ pc' = [t \in Threads |-> "none"]
  /\ loc' = [t \in Threads |-> InitLoc]
  /\ UNCHANGED <<file, images, now, tweets, started, everPersisted, media, tweet_text,
                 response, completed, feed>>

\* A step of save_state in which open or json.dump raises.
WriteFails(t) ==
  \/ pc[t] = "save" /\ pc'[t] = "status"
  \/ pc[t] = "dump" /\ file'.kind = "partial"

\* The steps of save_state in which nothing raises.
SaveOpenDone(t) == SaveOpen(t) /\ ~WriteFails(t)

SaveDumpDone(t) == SaveDump(t) /\ ~WriteFails(t)

\* Checks run one after another, every write of state.json that is not
\* interrupted succeeds, and the process can be killed while a check runs.
NextCrash ==
  \/ RunBotInit \/ RunBotComponents \/ RunBotReady
  \/ Tick
  \/ health_check_seq
  \/ status
  \/ \E t \in Threads :
       \/ Begin(t) \/ Load(t) \/ Fetch(t) \/ Select(t) \/ Post(t)
       \/ CleanupCheck(t) \/ Remove(t) \/ SaveOpenDone(t) \/ SaveDumpDone(t)
       \/ Finish(t)
  \/ Crash

SpecCrash == Init /\ [][NextCrash]_vars

\* ---- the same lists at every fetch
\* The date does not change, both fetches return the same at every check,
\* post_media_tweet returns True, every write of state.json succeeds, and
\* checks run one after another.
Feeds == [anime : FetchResults, manga : FetchResults]

InitSteady ==
  /\ feed \in {{f} : f \in Feeds}
  /\ now \in Days
  /\ response = NoResponse
  /\ completed = {}
  /\ media = NoMedia
  /\ tweet_text = ""
  /\ bot_status = InitStatus
  /\ mal_monitor = FALSE
  /\ twitter_client = FALSE
  /\ rb_pc = "start"
  /\ file = AbsentFile
  /\ images = {}
  /\ tweets = [c \in Categories |-> {}]
  /\ pc = [t \in Threads |-> "none"]
  /\ loc = [t \in Threads |-> InitLoc]
  /\ started = 0
  /\ everPersisted = [c \in Categories |-> {}]

\* main.py:78-113 with the lists of the feed.
FetchSteady(t) ==
  /\ Alive
  /\ pc[t] = "fetch"
  /\ \E f \in feed :
       FetchStep(t, Filtered(f.anime, now, Tweeted(loc[t].state, "anime")),
                    Filtered(f.manga, now, Tweeted(loc[t].state, "manga")))

\* main.py:129-132 / 141-144 when post_media_tweet returns True.
PostSucceeds(t) ==
  /\ Alive
  /\ pc[t] = "post"
  /\ \E m \in loc[t].media, p \in PublishOutcomes(ImageExists(loc[t])) :
       p.result /\ PostStep(t, m, p)
  /\ UNCHANGED <<mal_monitor, twitter_client, rb_pc, file, images, now,
                 started, everPersisted, media, tweet_text,
                 response, completed, feed>>

\* One check for every record the two lists can hold, and one more.
SteadyCycles == 2 * MaxId + 1

health_check_steady == Quiet /\ HealthCheck(SteadyCycles)

NextSteady ==
  \/ RunBotInit \/ RunBotComponents \/ RunBotReady
  \/ health_check_steady
  \/ status
  \/ \E t \in Threads :
       \/ Begin(t) \/ Load(t) \/ FetchSteady(t) \/ Select(t) \/ PostSucceeds(t)
       \/ CleanupCheck(t) \/ Remove(t) \/ SaveOpenDone(t) \/ SaveDumpDone(t)
       \/ Finish(t)

SpecSteady == InitSteady /\ [][NextSteady]_vars

\* ---- twitter_client.py _format_tweet_text, on its own
Titles == {"Monster", "Berserk", ""}
Scores == 0..MaxScore

FormatInputs == [title : Titles, score : Scores, type : Categories]

\* The string literals of lines 126-136, written as the code points the
\* source file holds between the quotes. Lines 128 and 134 hold the same
\* three characters.
Emoji(score) ==
  IF score >= 9 THEN "<f0 178 152 178>"
  ELSE IF score >= 8 THEN "<f0 178 2dc>"
  ELSE IF score >= 7 THEN "<f0 178 2018>"
  ELSE IF score >= 6 THEN "<f0 178 2dc 160>"
  ELSE IF score >= 5 THEN "<f0 178 2dc>"
  ELSE "<f0 178 2dc 201d>"

\* One line, whatever the score.
format_tweet_text_title_only(m) == "finished " \o m.title

\* lines 116-142
format_tweet_text(m) ==
  LET title == m.title
      score == m.score
  IN IF score > 0
       THEN "finished " \o title \o "\n" \o ToString(score) \o "/10 " \o Emoji(score)
       ELSE "finished " \o title

InitFormat ==
  /\ media \in FormatInputs
  /\ tweet_text = ""
  /\ response = NoResponse
  /\ completed = {}
  /\ feed = {}
  /\ bot_status = InitStatus
  /\ mal_monitor = FALSE
  /\ twitter_client = FALSE
  /\ rb_pc = "start"
  /\ file = AbsentFile
  /\ images = {}
  /\ now = 1
  /\ tweets = [c \in Categories |-> {}]
  /\ pc = [t \in Threads |-> "none"]
  /\ loc = [t \in Threads |-> InitLoc]
  /\ started = 0
  /\ everPersisted = [c \in Categories |-> {}]

\* twitter_client.py:46
FormatTweetText ==
  /\ tweet_text = ""
  /\ tweet_text' = format_tweet_text(media)
  /\ UNCHANGED <<bot_status, mal_monitor, twitter_client, rb_pc, file, images,
                 now, tweets, pc, loc, started, everPersisted, media,
                 response, completed, feed>>

NextFormat == FormatTweetText

SpecFormat == InitFormat /\ [][NextFormat]_vars

\* ---- mal_monitor.py get_completed_anime / get_completed_manga, on their own
InitFetch ==
  /\ response \in Responses
  /\ completed = {}
  /\ feed = {}
  /\ media = NoMedia
  /\ tweet_text = ""
  /\ bot_status = InitStatus
  /\ mal_monitor = FALSE
  /\ twitter_client = FALSE
  /\ rb_pc = "start"
  /\ file = AbsentFile
  /\ images = {}
  /\ now = 1
  /\ tweets = [c \in Categories |-> {}]
  /\ pc = [t \in Threads |-> "none"]
  /\ loc = [t \in Threads |-> InitLoc]
  /\ started = 0
  /\ everPersisted = [c \in Categories |-> {}]

\* main.py:78 / 79
GetCompleted ==
  /\ completed = {}
  /\ completed' = {get_completed(response)}
  /\ UNCHANGED <<bot_status, mal_monitor, twitter_client, rb_pc, file, images,
                 now, tweets, pc, loc, started, everPersisted, media,
                 tweet_text, response, feed>>

NextFetch == GetCompleted

SpecFetch == InitFetch /\ [][NextFetch]_vars

\* ---- properties
Running == {t \in Threads : pc[t] \notin {"none", "start"}}

\* The step in which thread t calls post_media_tweet.
Publishes(t) == pc[t] = "post" /\ pc'[t] = "cleanup"

\* C1: in cycles run one after another, an id that state.json has held for a
\* category is not handed to the publisher again by a later cycle.
C1_NoRepublish ==
  [][\A t \in Threads : Publishes(t) =>
        \A m \in loc[t].media : m.mal_id \notin everPersisted[m.type]]_vars

\* C2: at most one cycle is executing at any time.
C2_SingleCycle == Cardinality(Running) <= 1

\* C3: an item (category, id) is posted successfully at most once.
C3_PostedOnce ==
  [][\A t \in Threads : Publishes(t) /\ loc'[t].result =>
        \A m \in loc[t].media : m.mal_id \notin tweets[m.type]]_vars

\* C4: in one cycle post_media_tweet is called at most once, and at most one
\* record is handed to it.
C4_OnePublishPerCycle ==
  \A t \in Threads : loc[t].published <= 1 /\ Cardinality(loc[t].media) <= 1

C4_Witness == \E t \in Threads : pc[t] = "cleanup" /\ loc[t].published = 1

BothCandidates(t) ==
  /\ pc[t] \in {"select", "post"}
  /\ loc[t].new_manga # <<>>
  /\ loc[t].new_anime # <<>>

\* C5: a cycle with a manga candidate and an anime candidate hands a manga
\* record to the publisher and adds no anime id; a cycle adds an anime id to
\* its state only in the publishing step of a cycle without manga candidate.
C5_MangaFirst ==
  [][\A t \in Threads :
       /\ BothCandidates(t) =>
            /\ \A m \in loc[t].media \cup loc'[t].media : m.type = "manga"
            /\ pc'[t] # "none" => loc'[t].state.anime = loc[t].state.anime
       /\ (pc[t] \notin {"none", "load"} /\ pc'[t] # "none"
             /\ loc'[t].state.anime # loc[t].state.anime) =>
            Publishes(t) /\ loc[t].new_manga = <<>>]_vars

C5_Witness ==
  \E t \in Threads :
    /\ pc[t] = "post"
    /\ BothCandidates(t)
    /\ \E m \in loc[t].media : m.type = "manga"

\* A finish date that is present and not before `today`.
Fresh(d, today) == d.kind = "full" /\ d.day >= today

Range(s) == {s[i] : i \in 1..Len(s)}

\* C6: an entry whose finish date is missing or before the day of the cycle
\* is in neither filtered list, whatever list is fetched, and is not the
\* record handed to the publisher.
C6_OnlyFresh ==
  \A t \in Threads :
    /\ \A m \in loc[t].media : Fresh(m.finished_date, loc[t].today)
    /\ \A e \in Range(loc[t].new_anime) \cup Range(loc[t].new_manga) :
         Fresh(e.finished_date, loc[t].today)
    /\ pc[t] = "fetch" =>
         \A r \in FetchResults, c \in Categories :
           ~FilterRaises(r) =>
             \A e \in Range(FilterNew(r, now, loc[t].state[c])) :
               Fresh(e.finished_date, now)

\* A non-empty list was fetched, nothing is published yet, and every entry
\* was filtered out.
C6_Witness ==
  \E t \in Threads :
    /\ pc[t] = "select"
    /\ loc[t].state.anime = {} /\ loc[t].state.manga = {}
    /\ loc[t].new_anime = <<>> /\ loc[t].new_manga = <<>>

\* C7: a cycle writes nothing and publishes nothing up to and including its
\* fetches, and the cycle whose two fetches fail sets the status "error" and
\* returns there.
C7_BothFetchesFail ==
  [][\A t \in Threads :
       /\ (pc[t] \in {"start", "load", "fetch"} /\ pc'[t] # pc[t]) =>
            file' = file /\ tweets' = tweets /\ everPersisted' = everPersisted
       /\ FetchStep(t, Filtered(FetchFailed, now, loc[t].state.anime),
                       Filtered(FetchFailed, now, loc[t].state.manga)) =>
            bot_status'.status = "error" /\ pc'[t] = "none"]_vars

C7_Witness ==
  /\ bot_status.status = "error"
  /\ bot_status.error_message = "Failed to fetch MAL data"
  /\ file.kind = "ok"
  /\ file.state.anime \cup file.state.manga # {}

\* C8: after a cycle has ended with the status "error", GET / starts a cycle.
C8_ErrorRecovers ==
  (bot_status.status = "error" /\ FreeThreads # {} /\ started < MaxCycles) =>
    ENABLED <<health_check>>_vars

RateLimited(l) == l.calls # <<>> /\ l.calls[1] = "TooManyRequests"

\* C9: a rate-limited post is retried exactly once; when the retry fails too
\* the id is not added, and the cycle goes on to save the state instead of
\* ending with the status "error".
C9_RateLimited ==
  [][\A t \in Threads :
       /\ (Publishes(t) /\ RateLimited(loc'[t])) =>
            /\ Len(loc'[t].calls) = 2
            /\ ~loc'[t].result =>
                 /\ loc'[t].state.anime = loc[t].state.anime
                 /\ loc'[t].state.manga = loc[t].state.manga
       /\ (pc[t] \in {"cleanup", "remove"} /\ pc'[t] # pc[t]
             /\ RateLimited(loc[t]) /\ ~loc[t].result) =>
            pc'[t] \in {"remove", "save"}]_vars

\* C10: GET / while the status is not "idle" ("starting", "initializing",
\* "checking" or "error") starts no thread and changes nothing, neither
\* bot_status nor state.json: however many requests arrive during a check,
\* the threads that run stay the ones that ran before.
C10_NoStartUnlessIdle ==
  bot_status.status # "idle" => ~ENABLED <<health_check>>_vars

C10_Witness ==
  /\ bot_status.status = "checking"
  /\ Running # {}
  /\ FreeThreads # {}
  /\ started < MaxCycles

\* The fetch results that are lists, the empty list among them, and whose
\* entries the filter can parse.
FetchedLists == {r \in FetchResults : r.ok /\ ~FilterRaises(r)}

\* C11: a cycle in which at least one fetch returns a list, be it the empty
\* list, does not take the path of lines 81-85: it goes on to compute the
\* deltas.
C11_OneFetchSucceeds ==
  [][\A t \in Threads :
       (pc[t] = "fetch" /\ pc'[t] # "fetch") =>
         \A a \in FetchedLists, m \in FetchResults :
           (~FilterRaises(m)
              /\ FetchStep(t, Filtered(a, now, loc[t].state.anime),
                              Filtered(m, now, loc[t].state.manga))) =>
             pc'[t] = "select"]_vars

\* The two id lists of a state.
IdsOf(st) == [c \in Categories |-> st[c]]

\* C12: the state of a cycle gets an id only in the step in which
\* post_media_tweet returns True, and then exactly the id of the record handed
\* to it, in the list of its category; every other step of the cycle leaves
\* both lists as they were loaded, and save_state writes these lists.
C12_AddOnSuccess ==
  [][\A t \in Threads :
       /\ (pc[t] \notin {"none", "load"} /\ pc'[t] # "none") =>
            IF Publishes(t) /\ loc'[t].result
              THEN \E m \in loc[t].media :
                     /\ m.mal_id \notin loc[t].state[m.type]
                     /\ loc'[t].state =
                          [loc[t].state EXCEPT ![m.type] = @ \cup {m.mal_id}]
              ELSE IdsOf(loc'[t].state) = IdsOf(loc[t].state)
       /\ (pc[t] = "dump" /\ pc'[t] # "dump" /\ file'.kind = "ok") =>
            IdsOf(file'.state) = IdsOf(loc[t].state)]_vars

C12_Witness ==
  \E t \in Threads :
    /\ pc[t] = "cleanup"
    /\ loc[t].result
    /\ loc[t].state.anime \cup loc[t].state.manga # {}

\* C13: state.json is never read in a partially written form: a load, also
\* the first one after the process was killed during a save, returns a
\* completely written state that holds every id persisted before.
C13_AtomicSave ==
  [][\A t \in Threads :
       (pc[t] = "load" /\ pc'[t] = "fetch") =>
         /\ file.kind # "partial"
         /\ \A c \in Categories : everPersisted[c] \subseteq loc'[t].state[c]]_vars

\* C14: the persisted id lists only grow: a completely written state.json
\* holds every id that state.json has held before.
C14_IdsOnlyGrow ==
  file.kind = "ok" =>
    \A c \in Categories : everPersisted[c] \subseteq file.state[c]

\* C15: when the cycles have ended, on whatever path, no image file that a
\* cycle saved under temp/ remains.
C15_ImageRemoved == Quiet => images = {}

\* The positions inside the try of main.py:70, after line 72.
InTry == {"load", "fetch", "select", "post", "cleanup", "remove", "save", "dump"}

\* C16: a cycle that has entered Checking and does not reach line 155 ends
\* with the status "error" and a message; where the cycle ends on an exception
\* the message is the exception's, and the process stays alive.
C16_ExceptionsCaught ==
  [][\A t \in Threads :
       (pc[t] \in InTry /\ pc'[t] = "none") =>
         /\ bot_status'.status = "error"
         /\ bot_status'.error_message # "None"
         /\ pc[t] = "post" => bot_status'.error_message = "'>' not supported"
         /\ pc[t] = "remove" =>
              bot_status'.error_message = "No such file or directory"
         /\ Alive']_vars

C16_Witness ==
  /\ bot_status.status = "error"
  /\ bot_status.error_message \in
       {"Invalid isoformat string", "'>' not supported", "No such file or directory"}
  /\ Alive

\* C17: when a cycle sets the status "idle" it has set last_check and
\* state.json holds the written state: the persisted last_check and the one
\* of bot_status are equal.
C17_SavedBeforeIdle ==
  [][\A t \in Threads :
       (pc[t] = "status" /\ pc'[t] = "none") =>
         /\ bot_status'.status = "idle"
         /\ bot_status'.last_check # NoTime
         /\ file.kind = "ok"
         /\ file.state.last_check = bot_status'.last_check]_vars

\* C18: whatever download_media_image returns, None included, the cycle goes
\* on to post_media_tweet with the selected record, and the status is not
\* touched; with None the publisher is called without image.
C18_PublishWithoutImage ==
  [][\A t \in Threads :
       /\ (pc[t] = "select" /\ pc'[t] # "select" /\ Selected(loc[t]) # {}) =>
            /\ pc'[t] = "post"
            /\ loc'[t].media = Selected(loc[t])
            /\ bot_status' = bot_status
            /\ loc'[t].image_path # {} => loc'[t].image_path \subseteq images'
       /\ (pc[t] = "post" /\ loc[t].image_path = {} /\ pc'[t] = "cleanup") =>
            loc'[t].published = 1 /\ loc'[t].image_path = {}]_vars

C18_Witness ==
  \E t \in Threads :
    pc[t] = "cleanup" /\ loc[t].published = 1 /\ loc[t].image_path = {}

\* The lower ends of the score buckets, best first, and the literal of each.
Buckets == <<9, 8, 7, 6, 5>>
BucketEmoji ==
  <<"<f0 178 152 178>", "<f0 178 2dc>", "<f0 178 2018>", "<f0 178 2dc 160>",
    "<f0 178 2dc>">>

Reached(score) == {i \in 1..Len(Buckets) : score >= Buckets[i]}

FirstBucketEmoji(score) ==
  IF Reached(score) = {} THEN "<f0 178 2dc 201d>"
  ELSE BucketEmoji[CHOOSE i \in Reached(score) : \A j \in Reached(score) : i <= j]

\* C19: the text depends on title and score only: "finished {title}" for
\* score 0, and for a score from 1 up that line followed by the line
\* "{score}/10 {emoji}" with the emoji of the first bucket the score reaches.
C19_MessageText ==
  tweet_text # "" =>
    tweet_text =
      IF media.score = 0
        THEN "finished " \o media.title
        ELSE "finished " \o media.title \o "\n" \o ToString(media.score)
               \o "/10 " \o FirstBucketEmoji(media.score)

C19_Witness == tweet_text # "" /\ media.score = MaxScore /\ media.type = "manga"

\* C20: GET /status changes nothing, whatever the status: bot_status,
\* state.json and the running threads are after the request what they were
\* before it.
C20_StatusNoEffect == ~ENABLED <<status>>_vars

\* GET / would start a check here.
C20_Witness ==
  /\ Alive
  /\ bot_status.status = "idle"
  /\ FreeThreads # {}
  /\ started < MaxCycles
  /\ file.kind = "ok"

\* C21: one call of post_media_tweet calls create_tweet at most twice, the
\* second time only after the first call raised TooManyRequests; when the last
\* call made did not return data, whatever it raised, the publish returns
\* False.
C21_AtMostOneRetry ==
  \A t \in Threads :
    loc[t].published = 1 =>
      /\ Len(loc[t].calls) \in {1, 2}
      /\ Len(loc[t].calls) = 2 => loc[t].calls[1] = "TooManyRequests"
      /\ loc[t].calls[Len(loc[t].calls)] # "created" => ~loc[t].result

\* The retry was rate-limited too.
C21_Witness ==
  \E t \in Threads :
    /\ loc[t].calls = <<"TooManyRequests", "TooManyRequests">>
    /\ ~loc[t].result

\* C22: when the image exists and media_upload raises or returns no media id,
\* create_tweet is still called, without media id, and post_media_tweet
\* returns what that call makes of it.
C22_UploadFailureTextOnly ==
  \A t \in Threads :
    loc[t].upload \in {"no_id", "raises"} =>
      /\ loc[t].calls # <<>>
      /\ ~loc[t].media_ids
      /\ loc[t].result = (loc[t].calls[Len(loc[t].calls)] = "created")

C22_Witness ==
  \E t \in Threads :
    /\ loc[t].upload = "raises"
    /\ loc[t].calls = <<"created">>
    /\ loc[t].result

\* C23: a fetch whose body holds a list returns the well-formed entries of
\* that list, in their order, also when the list holds a malformed entry.
C23_MalformedSkipped ==
  (completed # {} /\ response.kind = "ok") =>
    completed = {[ok |-> TRUE, data |-> InfoList(WellFormed(response.data))]}

\* The changes of bot_status['status'] the phase diagram allows.
PhaseSteps ==
  {<<"starting", "initializing">>, <<"initializing", "idle">>,
   <<"idle", "checking">>, <<"checking", "idle">>, <<"checking", "error">>}

\* C24: whenever the status changes, also with overlapping checks, it changes
\* along starting -> initializing -> idle -> checking -> (idle | error).
C24_PhaseOrder ==
  [][bot_status'.status # bot_status.status =>
       <<bot_status.status, bot_status'.status>> \in PhaseSteps]_vars

Other(c) == IF c = "anime" THEN "manga" ELSE "anime"

\* C25: the two categories are tracked apart: the filter of a category keeps
\* every fresh entry whose id is not in the list of that category, whether or
\* not the other list holds the id, and a successful publish leaves the list
\* of the other category as it was.
C25_CategoriesIndependent ==
  [][\A t \in Threads :
       /\ pc[t] = "fetch" =>
            \A r \in FetchedLists, c \in Categories :
              \A e \in Range(r.data) :
                (Fresh(e.finished_date, now) /\ e.mal_id \notin loc[t].state[c]) =>
                  e \in Range(FilterNew(r, now, Tweeted(loc[t].state, c)))
       /\ (Publishes(t) /\ loc'[t].result) =>
            \A m \in loc[t].media :
              /\ loc'[t].state[Other(m.type)] = loc[t].state[Other(m.type)]
              /\ tweets'[Other(m.type)] = tweets[Other(m.type)]
              /\ m.mal_id \in loc'[t].state[m.type]]_vars

\* An id was published for one category while the list of the other one
\* held it already.
C25_Witness ==
  \E t \in Threads :
    /\ pc[t] = "cleanup"
    /\ loc[t].result
    /\ loc[t].state.anime \cap loc[t].state.manga # {}

\* The places of a fetched list whose entry is a candidate.
Candidates(r, today, ids) ==
  {i \in 1..Len(r.data) : IsNew(r.data[i], today, ids)}

First(S) == CHOOSE i \in S : \A j \in S : i <= j

\* C26: of a fetched list the cycle goes on with the candidate that comes
\* first in the order of the list, and the record handed to the publisher is
\* that one of the selected category; the record is a function of the loaded
\* state, the two lists and the date.
C26_FirstInListOrder ==
  [][\A t \in Threads :
       /\ pc[t] = "fetch" =>
            \A r \in FetchedLists, c \in Categories :
              LET cand == Candidates(r, now, loc[t].state[c])
              IN Filtered(r, now, loc[t].state[c]).new =
                   IF cand = {} THEN <<>> ELSE <<r.data[First(cand)]>>
       /\ (pc[t] = "select" /\ pc'[t] = "post") =>
            /\ Cardinality(loc'[t].media) = 1
            /\ \A m \in loc'[t].media :
                 LET l == IF m.type = "manga" THEN loc[t].new_manga
                                              ELSE loc[t].new_anime
                 IN /\ l # <<>>
                    /\ m.mal_id = l[1].mal_id
                    /\ m.finished_date = l[1].finished_date]_vars

\* The record handed to the publisher has the highest id: the list did not
\* hold its candidates in the order of their ids.
C26_Witness ==
  \E t \in Threads :
    /\ pc[t] = "post"
    /\ loc[t].state.anime = {} /\ loc[t].state.manga = {}
    /\ \E m \in loc[t].media : m.mal_id = MaxId /\ m.finished_date.day = MaxDay

\* The place of a position in the straight-line code of trigger_bot_check.
Rank(p) ==
  CASE p = "start" -> 1 [] p = "load" -> 2 [] p = "fetch" -> 3
    [] p = "select" -> 4 [] p = "post" -> 5 [] p = "cleanup" -> 6
    [] p = "remove" -> 7 [] p = "save" -> 8 [] p = "dump" -> 9
    [] p = "status" -> 10 [] p = "none" -> 11

\* No step of a thread goes back in the code: there is no loop, also when
\* checks overlap.
CycleAdvances ==
  [][\A t \in Threads :
       (pc[t] # "none" /\ pc'[t] # pc[t]) => Rank(pc'[t]) > Rank(pc[t])]_vars

\* A thread that has not finished has a step to take: it waits on no other
\* thread.
CycleEnabled ==
  \A t \in Threads : (pc[t] # "none" /\ Alive) => ENABLED <<Cycle(t)>>_vars

\* C27: a check that has set the status "checking" comes to its end, and the
\* step in which its thread finishes sets the status "idle" or "error": when
\* no thread is running the status is not "checking".
C27_CycleEnds ==
  /\ \A t \in Threads : (pc[t] \in InTry \cup {"status"}) ~> (pc[t] = "none")
  /\ [][\A t \in Threads :
          (pc[t] \in InTry \cup {"status"} /\ pc'[t] = "none") =>
            bot_status'.status \in {"idle", "error"}]_vars
  /\ [](Running = {} => bot_status.status # "checking")

\* All checks the model starts have finished, the last one on the last day.
C27_Witness ==
  /\ Quiet
  /\ started = MaxCycles
  /\ bot_status.status = "idle"
  /\ bot_status.last_check = {MaxDay}

\* The ids of the records of a list that are candidates on day `today`
\* while nothing is published.
CandidateIds(r, today) ==
  {r.data[i].mal_id : i \in {j \in 1..Len(r.data) : Fresh(r.data[j].finished_date, today)}}

Min(a, b) == IF a <= b THEN a ELSE b

\* C28: with the same lists at every fetch, a fixed date, a publisher that
\* succeeds and saves that succeed, after n checks run one after another
\* min(n, k) of the k candidates are published, one per check; only
\* candidates are published, and no anime before every manga candidate.
C28_AllPublished ==
  (Quiet /\ twitter_client) =>
    \A f \in feed :
      LET mangaIds == CandidateIds(f.manga, now)
          animeIds == CandidateIds(f.anime, now)
          k == Cardinality(mangaIds) + Cardinality(animeIds)
      IN /\ Cardinality(tweets.manga) + Cardinality(tweets.anime) = Min(started, k)
         /\ tweets.manga \subseteq mangaIds
         /\ tweets.anime \subseteq animeIds
         /\ tweets.anime # {} => tweets.manga = mangaIds

====
